---- MODULE Spec2Model ----
(***************************************************************************)
(* Model of examples/preemptible_watchdog.py: the watchdog that resolves   *)
(* a set of preemptible instances, logs their status histogram when it     *)
(* changes, and starts the stopped ones, once per interval.                *)
(*                                                                         *)
(* The cloud API client (yandex_cloud_client) is the environment: what a   *)
(* call returns is an input of the action that makes the call.             *)
(* asyncio behaves as in CPython 3.7 .. 3.13: get_event_loop() in the main *)
(* thread returns the one loop of the thread, also after it was closed,    *)
(* and scheduling a coroutine on a closed loop raises RuntimeError.        *)
(***************************************************************************)
EXTENDS Integers, Sequences, FiniteSets, TLC

\* ---------------------------------------------------------------- bounds
MaxLen == 3        \* longest configured identifier list
MaxRounds == 2     \* loop iterations explored

\* ------------------------------------------------------------ data model
Ids == {"A", "B"}
None == "None"
Status == {"RUNNING", "STOPPED", "STARTING"}
LabelValues == {"keep_vm_up", "let_vm_stop"}
Labels == LabelValues \cup {None}
\* the two label values are interchangeable: the go value, when configured,
\* is the first of them, and the no-go value is any of the two or none
GoValues == {None, "keep_vm_up"}
Kinds == {"missing", "regular", "preemptible"}

Instance(id, preemptible, status, label) ==
    [id |-> id, preemptible |-> preemptible, status |-> status, label |-> label]

stopped(instance) == instance.status = "STOPPED"

VARIABLES
    pc,                     \* position of main()
    kind,                   \* the cloud: per identifier, missing / regular / preemptible
    instances,              \* config.instances, the working list
    label_go_value,         \* config.label_go_value
    label_no_go_value,      \* config.label_no_go_value
    get_instances_func,     \* the strategy main() picked
    init_instance_list,     \* main(): result of the first resolve
    all_matching_instances, \* main(): this round's snapshot (dict, in insertion order)
    stopped_instances,      \* main(): the stopped members of the snapshot
    tasks,                  \* one outcome slot per coroutine given to gather
    loop_closed,            \* the thread's event loop has been closed
    last_status_stats,      \* module global: the last logged histogram string
    stats_logged,           \* the last prep_and_log_statistics emitted a line
    round,                  \* loop iterations begun
    slept,                  \* sleeps performed
    \* records of the gateway traffic
    instance_list,          \* what instances_in_folder returned to the last call
    call_list,              \* the working list when the last resolve began
    fetched,                \* identifiers fetched by the last resolve, in order
    fetch_failed,           \* identifiers whose fetch raised in the last resolve
    dropped,                \* identifiers ever popped from the working list
    start_calls \* start commands issued per identifier in this round

vars == <<pc, kind, instances, label_go_value, label_no_go_value,
          get_instances_func, init_instance_list, all_matching_instances,
          stopped_instances, tasks, loop_closed, last_status_stats,
          stats_logged, round, slept, instance_list, call_list, fetched,
          fetch_failed, dropped, start_calls>>

\* ------------------------------------------------------------- sequences
Range(s) == {s[k] : k \in DOMAIN s}

IdsOf(s) == {s[k].id : k \in DOMAIN s}

\* list.pop(i), i counted from 1
Pop(s, i) == [k \in 1..(Len(s) - 1) |-> IF k < i THEN s[k] ELSE s[k + 1]]

\* a list that is appended to, where the code stores under the instance's id
DictSetAppend(d, inst) == Append(d, inst)

\* d[key] = value on an insertion-ordered dict kept as a sequence of instances
DictSet(d, inst) ==
    IF inst.id \in IdsOf(d)
    THEN [k \in DOMAIN d |-> IF d[k].id = inst.id THEN inst ELSE d[k]]
    ELSE Append(d, inst)

RECURSIVE DictOf(_)
\* dict(map(lambda i: (i.id, i), instance_list))
DictOf(s) ==
    IF s = <<>> THEN <<>>
    ELSE DictSet(DictOf(SubSeq(s, 1, Len(s) - 1)), s[Len(s)])

SeqsUpTo(S, n) == UNION {[1..k -> S] : k \in 0..n}

ConfiguredLists == SeqsUpTo(Ids, MaxLen)

\* ------------------------------------------------------- Target Selector
\* compute.instance(instance_id): the fetch raises for an unknown identifier
\* and for a transient API error (step i of the enumeration is in fail).
FetchRaises(id, i, fail) == kind[id] = "missing" \/ i \in fail

Fetched(id, st) == Instance(id, kind[id] = "preemptible", st[id], None)

RECURSIVE config_loop(_, _, _, _)
\* the for loop of get_instances_from_config: i is the enumerate index (from
\* 1), which is also the position the list iterator reads next; the loop ends
\* when i passes the current length of the list it is popping from.
config_loop(i, r, fail, st) ==
    IF i > Len(r.list) THEN r
    ELSE LET instance_id == r.list[i]
             seen == [r EXCEPT !.fetched = Append(@, instance_id)]
         IN  IF FetchRaises(instance_id, i, fail)
             THEN config_loop(i + 1,
                      [seen EXCEPT !.list = Pop(@, i),
                                   !.failed = @ \cup {instance_id},
                                   !.popped = @ \cup {instance_id}],
                      fail, st)
             ELSE IF Fetched(instance_id, st).preemptible
             THEN config_loop(i + 1,
                      [seen EXCEPT !.instances =
                                       DictSet(@, Fetched(instance_id, st))],
                      fail, st)
             ELSE config_loop(i + 1,
                      [seen EXCEPT !.list = Pop(@, i),
                                   !.popped = @ \cup {instance_id}],
                      fail, st)

get_instances_from_config(list, fail, st) ==
    config_loop(1, [instances |-> <<>>, list |-> list, fetched |-> <<>>,
                    failed |-> {}, popped |-> {}], fail, st)

\* what compute.instances_in_folder can return: the instances that exist, in
\* the order of ord, each with the status and the label of the moment
Listing(ord, st, lb) ==
    LET present == SelectSeq(ord, LAMBDA id : kind[id] # "missing")
    IN  [k \in DOMAIN present |->
            Instance(present[k], kind[present[k]] = "preemptible",
                     st[present[k]], lb[present[k]])]

ListingOrders == {<<"A", "B">>, <<"B", "A">>}

\* the label filter alone, without the preemptible filter of line 232
get_instances_from_yc_folder_unfiltered(listing) ==
    DictOf(IF label_go_value # None
           THEN SelectSeq(listing, LAMBDA i : i.label = label_go_value)
           ELSE IF label_no_go_value # None
           THEN SelectSeq(listing, LAMBDA i : ~(i.label = label_no_go_value))
           ELSE listing)

\* both label filters applied one after the other
get_instances_from_yc_folder_both_filters(listing) ==
    LET preemptible == SelectSeq(listing, LAMBDA i : i.preemptible = TRUE)
        go == IF label_go_value # None
              THEN SelectSeq(preemptible, LAMBDA i : i.label = label_go_value)
              ELSE preemptible
        filtered ==
            IF label_no_go_value # None
            THEN SelectSeq(go, LAMBDA i : ~(i.label = label_no_go_value))
            ELSE go
    IN  DictOf(filtered)

\* a query that, once the loop runs, keeps only members of the TargetSet
\* before it
get_instances_from_yc_folder_sticky(listing) ==
    LET preemptible == SelectSeq(listing, LAMBDA i : i.preemptible = TRUE)
        filtered ==
            IF label_go_value # None
            THEN SelectSeq(preemptible, LAMBDA i : i.label = label_go_value)
            ELSE IF label_no_go_value # None
            THEN SelectSeq(preemptible,
                           LAMBDA i : ~(i.label = label_no_go_value))
            ELSE preemptible
        before == IF round = 0 THEN init_instance_list
                  ELSE all_matching_instances
    IN  DictOf(IF pc = "loop"
               THEN SelectSeq(filtered,
                              LAMBDA i : i.id \in IdsOf(before))
               ELSE filtered)

\* lines 226-240
get_instances_from_yc_folder(listing) ==
    LET preemptible == SelectSeq(listing, LAMBDA i : i.preemptible = TRUE)
        filtered ==
            IF label_go_value # None
            THEN SelectSeq(preemptible, LAMBDA i : i.label = label_go_value)
            ELSE IF label_no_go_value # None
            THEN SelectSeq(preemptible,
                           LAMBDA i : ~(i.label = label_no_go_value))
            ELSE preemptible
    IN  DictOf(filtered)

\* ----------------------------------------------------- Status Aggregator
RECURSIVE instances_dict(_)
\* the status -> count dict, in the order the statuses are first met
instances_dict(s) ==
    IF s = <<>> THEN <<>>
    ELSE LET d == instances_dict(SubSeq(s, 1, Len(s) - 1))
             status == s[Len(s)].status
         IN  IF \E k \in DOMAIN d : d[k][1] = status
             THEN [k \in DOMAIN d |->
                      IF d[k][1] = status THEN <<status, d[k][2] + 1>> ELSE d[k]]
             ELSE Append(d, <<status, 1>>)

\* str(dict): the items in insertion order between braces; "" is <<>>
StrOfDict(d) == <<<<"{", 0>>>> \o d \o <<<<"}", 0>>>>

new_status_stats(s) == StrOfDict(instances_dict(s))

\* the comparison and the log line without the assignment of line 207
prep_and_log_statistics_not_retained(s) ==
    /\ stats_logged' = (new_status_stats(s) # last_status_stats)
    /\ UNCHANGED last_status_stats

\* prep_and_log_statistics(instances), as a relation on the global
prep_and_log_statistics(s) ==
    IF new_status_stats(s) # last_status_stats
    THEN /\ stats_logged' = TRUE
         /\ last_status_stats' = new_status_stats(s)
    ELSE /\ stats_logged' = FALSE
         /\ UNCHANGED last_status_stats

\* ------------------------------------------------------------------ main
\* the stopped ones of the snapshot of the round before
stopped_of_stale(all) == SelectSeq(all_matching_instances, stopped)

\* line 283: keep only stopped ones
stopped_of(all) == SelectSeq(all, stopped)

NoCalls == [id \in Ids |-> 0]

FailedIds == {stopped_instances[k].id :
                 k \in {j \in DOMAIN tasks : tasks[j] = "Failed"}}

Init ==
    /\ pc = "start"
    /\ kind \in [Ids -> Kinds]
    /\ \/ /\ instances \in ConfiguredLists \ {<<>>}
          /\ label_go_value = None
          /\ label_no_go_value = None
       \/ /\ instances = <<>>
          /\ label_go_value \in GoValues
          /\ label_no_go_value \in Labels
    /\ get_instances_func = None
    /\ init_instance_list = <<>>
    /\ all_matching_instances = <<>>
    /\ stopped_instances = <<>>
    /\ tasks = <<>>
    /\ loop_closed = FALSE
    /\ last_status_stats = <<>>
    /\ stats_logged = FALSE
    /\ round = 0
    /\ slept = 0
    /\ instance_list = <<>>
    /\ call_list = <<>>
    /\ fetched = <<>>
    /\ fetch_failed = {}
    /\ dropped = {}
    /\ start_calls = NoCalls

cfgvars == <<kind, label_go_value, label_no_go_value>>
loopvars == <<all_matching_instances, stopped_instances, tasks, loop_closed,
              last_status_stats, stats_logged, round, slept, start_calls>>
callvars == <<instance_list, call_list, fetched, fetch_failed, dropped>>

\* lines 263-269: pick the strategy and log the configuration; the log line of
\* the label strategy concatenates '(-) ' with label_no_go_value, a TypeError
\* when neither value is configured
Startup ==
    /\ pc = "start"
    /\ IF instances # <<>>
       THEN /\ get_instances_func' = "get_instances_from_config"
            /\ pc' = "init"
       ELSE /\ get_instances_func' = "get_instances_from_yc_folder"
            /\ pc' = IF label_go_value = None /\ label_no_go_value = None
                     THEN "TypeError" ELSE "init"
    /\ UNCHANGED <<cfgvars, instances, init_instance_list, loopvars, callvars>>

\* one call of get_instances_from_config with its effects on the working list
ResolveConfig(r) ==
    /\ instances' = r.list
    /\ call_list' = instances
    /\ fetched' = r.fetched
    /\ fetch_failed' = r.failed
    /\ dropped' = dropped \cup r.popped
    /\ UNCHANGED instance_list

\* one call of get_instances_from_yc_folder that got a listing
ResolveFolder(listing) ==
    /\ instance_list' = listing
    /\ UNCHANGED <<instances, call_list, fetched, fetch_failed, dropped>>

\* The gateway's answers are drawn once per call.  An answer the call cannot
\* show is held at one value: the status of an instance that is missing, not
\* preemptible (no resolve keeps it, so its status is never read) or not
\* named by the working list, the label of a missing instance, and the order
\* of a listing of fewer than two instances.
StatusInputs(named) ==
    {st \in [Ids -> Status] :
        \A id \in Ids :
            (kind[id] # "preemptible" \/ id \notin named) => st[id] = "RUNNING"}

LabelInputs ==
    {lb \in [Ids -> Labels] :
        \A id \in Ids : kind[id] = "missing" => lb[id] = None}

OrderInputs ==
    IF Cardinality({id \in Ids : kind[id] # "missing"}) < 2
    THEN {CHOOSE ord \in ListingOrders : TRUE}
    ELSE ListingOrders

\* The statuses the first resolve sees: main() reads only the emptiness, the
\* ids and the names of init_instance_list (lines 273-274), never a status,
\* so one status assignment stands for all of them.
FirstStatus == {[id \in Ids |-> "RUNNING"]}

\* the first resolve without the emptiness check of lines 275-277
InitResolveConfigUnchecked ==
    /\ pc = "init"
    /\ get_instances_func = "get_instances_from_config"
    /\ \E fail \in SUBSET (1..Len(instances)), st \in FirstStatus :
          LET r == get_instances_from_config(instances, fail, st)
          IN  /\ ResolveConfig(r)
              /\ init_instance_list' = r.instances
              /\ pc' = "loop"
    /\ UNCHANGED <<cfgvars, get_instances_func, loopvars>>

\* lines 272-277 under the explicit list
InitResolveConfig ==
    /\ pc = "init"
    /\ get_instances_func = "get_instances_from_config"
    /\ \E fail \in SUBSET (1..Len(instances)), st \in FirstStatus :
          LET r == get_instances_from_config(instances, fail, st)
          IN  /\ ResolveConfig(r)
              /\ init_instance_list' = r.instances
              /\ pc' = IF r.instances # <<>> THEN "loop" ELSE "exit0"
    /\ UNCHANGED <<cfgvars, get_instances_func, loopvars>>

\* lines 272-277 under the label query
InitResolveFolder ==
    /\ pc = "init"
    /\ get_instances_func = "get_instances_from_yc_folder"
    /\ \E ord \in OrderInputs, st \in FirstStatus, lb \in LabelInputs :
          LET r == get_instances_from_yc_folder(Listing(ord, st, lb))
          IN  /\ ResolveFolder(Listing(ord, st, lb))
              /\ init_instance_list' = r
              /\ pc' = IF r # <<>> THEN "loop" ELSE "exit0"
    /\ UNCHANGED <<cfgvars, get_instances_func, loopvars>>

\* compute.instances_in_folder raises: nothing catches it
InitResolveFolderRaises ==
    /\ pc = "init"
    /\ get_instances_func = "get_instances_from_yc_folder"
    /\ pc' = "YandexCloudError"
    /\ UNCHANGED <<cfgvars, instances, get_instances_func, init_instance_list,
                   loopvars, callvars>>

\* lines 254-257: one coroutine per instance handed over, none started yet
prepare_start_tasks(insts) == [k \in DOMAIN insts |-> "pending"]

\* a loop that repeats the emptiness check of lines 275-277 on every snapshot
RoundExitOnEmpty(all) ==
    /\ all_matching_instances' = all
    /\ prep_and_log_statistics(all)
    /\ stopped_instances' = stopped_of(all)
    /\ round' = round + 1
    /\ start_calls' = NoCalls
    /\ IF all = <<>>
       THEN /\ pc' = "exit0"
            /\ tasks' = <<>>
       ELSE IF stopped_of(all) = <<>>
       THEN /\ pc' = "sleep"
            /\ tasks' = <<>>
       ELSE IF loop_closed
       THEN /\ pc' = "RuntimeError"
            /\ tasks' = <<>>
       ELSE /\ pc' = "gather"
            /\ tasks' = prepare_start_tasks(stopped_of(all))
    /\ UNCHANGED <<loop_closed, slept>>

\* lines 281-287 once the resolve returned all: log the histogram, filter the
\* stopped ones, and hand them to the event loop.  asyncio.get_event_loop()
\* returns the loop closed by an earlier round (line 289), on which gather
\* cannot schedule the coroutines: RuntimeError, before any of them runs.
Round(all) ==
    /\ all_matching_instances' = all
    /\ prep_and_log_statistics(all)
    /\ stopped_instances' = stopped_of(all)
    /\ round' = round + 1
    /\ start_calls' = NoCalls
    /\ IF stopped_of(all) = <<>>
       THEN /\ pc' = "sleep"
            /\ tasks' = <<>>
       ELSE IF loop_closed
       THEN /\ pc' = "RuntimeError"
            /\ tasks' = <<>>
       ELSE /\ pc' = "gather"
            /\ tasks' = prepare_start_tasks(stopped_of(all))
    /\ UNCHANGED <<loop_closed, slept>>

\* line 280 under the explicit list
LoopResolveConfig ==
    /\ pc = "loop"
    /\ round < MaxRounds
    /\ get_instances_func = "get_instances_from_config"
    /\ \E fail \in SUBSET (1..Len(instances)),
          st \in StatusInputs(Range(instances)) :
          LET r == get_instances_from_config(instances, fail, st)
          IN  /\ ResolveConfig(r)
              /\ Round(r.instances)
    /\ UNCHANGED <<cfgvars, get_instances_func, init_instance_list>>

\* a loop that picks the strategy anew at each resolve, by the working list
LoopResolveFolderByWorkingList ==
    /\ pc = "loop"
    /\ round < MaxRounds
    /\ instances = <<>>
    /\ \E ord \in OrderInputs, st \in StatusInputs(Ids), lb \in LabelInputs :
          /\ ResolveFolder(Listing(ord, st, lb))
          /\ Round(get_instances_from_yc_folder(Listing(ord, st, lb)))
    /\ UNCHANGED <<cfgvars, get_instances_func, init_instance_list>>

\* line 280 under the label query
LoopResolveFolder ==
    /\ pc = "loop"
    /\ round < MaxRounds
    /\ get_instances_func = "get_instances_from_yc_folder"
    /\ \E ord \in OrderInputs, st \in StatusInputs(Ids), lb \in LabelInputs :
          /\ ResolveFolder(Listing(ord, st, lb))
          /\ Round(get_instances_from_yc_folder(Listing(ord, st, lb)))
    /\ UNCHANGED <<cfgvars, get_instances_func, init_instance_list>>

\* line 280, compute.instances_in_folder raises: nothing catches it
LoopResolveFolderRaises ==
    /\ pc = "loop"
    /\ round < MaxRounds
    /\ get_instances_func = "get_instances_from_yc_folder"
    /\ pc' = "YandexCloudError"
    /\ round' = round + 1
    /\ UNCHANGED <<cfgvars, instances, get_instances_func, init_instance_list,
                   all_matching_instances, stopped_instances, tasks,
                   loop_closed, last_status_stats, stats_logged, slept,
                   start_calls, callvars>>

\* lines 243-246: coroutine k runs up to its await: a stopped instance gets
\* its start command, any other is skipped
start_instance_call(k) ==
    /\ pc = "gather"
    /\ k \in DOMAIN tasks
    /\ tasks[k] = "pending"
    /\ IF stopped(stopped_instances[k])
       THEN /\ tasks' = [tasks EXCEPT ![k] = "inflight"]
            /\ start_calls' = [start_calls EXCEPT
                                  ![stopped_instances[k].id] = @ + 1]
       ELSE /\ tasks' = [tasks EXCEPT ![k] = "Skipped"]
            /\ UNCHANGED start_calls
    /\ UNCHANGED <<pc, cfgvars, instances, get_instances_func,
                   init_instance_list, all_matching_instances,
                   stopped_instances, loop_closed, last_status_stats,
                   stats_logged, round, slept, callvars>>

\* the coroutine without its except clause: the error leaves gather and
\* run_until_complete, and ends the process
start_instance_return_uncaught(k) ==
    /\ pc = "gather"
    /\ k \in DOMAIN tasks
    /\ tasks[k] = "inflight"
    /\ \/ /\ tasks' = [tasks EXCEPT ![k] = "Started"]
          /\ pc' = pc
       \/ /\ tasks' = [tasks EXCEPT ![k] = "Failed"]
          /\ pc' = "YandexCloudError"
    /\ UNCHANGED <<cfgvars, instances, get_instances_func,
                   init_instance_list, all_matching_instances,
                   stopped_instances, loop_closed, last_status_stats,
                   stats_logged, round, slept, start_calls, callvars>>

\* lines 246-249: the start command of coroutine k returns, or raises the
\* YandexCloudError that the coroutine catches and logs
start_instance_return(k) ==
    /\ pc = "gather"
    /\ k \in DOMAIN tasks
    /\ tasks[k] = "inflight"
    /\ \E outcome \in {"Started", "Failed"} :
          tasks' = [tasks EXCEPT ![k] = outcome]
    /\ UNCHANGED <<pc, cfgvars, instances, get_instances_func,
                   init_instance_list, all_matching_instances,
                   stopped_instances, loop_closed, last_status_stats,
                   stats_logged, round, slept, start_calls, callvars>>

Resolved == {"Started", "Failed", "Skipped"}

\* a wait that returns with the first coroutine that finishes
GatherDoneFirstCompleted ==
    /\ pc = "gather"
    /\ \E k \in DOMAIN tasks : tasks[k] \in {"Started", "Failed", "Skipped"}
    /\ loop_closed' = TRUE
    /\ pc' = "sleep"
    /\ UNCHANGED <<cfgvars, instances, get_instances_func, init_instance_list,
                   all_matching_instances, stopped_instances, tasks,
                   last_status_stats, stats_logged, round, slept, start_calls,
                   callvars>>

\* lines 287-289: run_until_complete returns when every coroutine has
\* finished; the loop is closed
GatherDone ==
    /\ pc = "gather"
    /\ \A k \in DOMAIN tasks : tasks[k] \in Resolved
    /\ loop_closed' = TRUE
    /\ pc' = "sleep"
    /\ UNCHANGED <<cfgvars, instances, get_instances_func, init_instance_list,
                   all_matching_instances, stopped_instances, tasks,
                   last_status_stats, stats_logged, round, slept, start_calls,
                   callvars>>

\* line 290
Sleep ==
    /\ pc = "sleep"
    /\ pc' = "loop"
    /\ slept' = slept + 1
    /\ UNCHANGED <<cfgvars, instances, get_instances_func, init_instance_list,
                   all_matching_instances, stopped_instances, tasks,
                   loop_closed, last_status_stats, stats_logged, round,
                   start_calls, callvars>>

Live == {"start", "init", "loop", "gather", "sleep"}

\* lines 18-23: SIGINT or SIGTERM at any moment, sys.exit(0)
sigterm_handler ==
    /\ pc \in Live
    /\ pc' = "terminated"
    /\ UNCHANGED <<cfgvars, instances, get_instances_func, init_instance_list,
                   loopvars, callvars>>

Next ==
    \/ Startup
    \/ InitResolveConfig
    \/ InitResolveFolder
    \/ InitResolveFolderRaises
    \/ LoopResolveConfig
    \/ LoopResolveFolder
    \/ LoopResolveFolderRaises
    \/ \E k \in 1..MaxLen : start_instance_call(k)
    \/ \E k \in 1..MaxLen : start_instance_return(k)
    \/ GatherDone
    \/ Sleep
    \/ sigterm_handler

Spec == Init /\ [][Next]_vars

\* the processes configured with an explicit list of identifiers
InitConfig == Init /\ instances # <<>>

NextConfig ==
    \/ Startup
    \/ InitResolveConfig
    \/ LoopResolveConfig
    \/ \E k \in 1..MaxLen : start_instance_call(k)
    \/ \E k \in 1..MaxLen : start_instance_return(k)
    \/ GatherDone
    \/ Sleep
    \/ sigterm_handler

SpecConfig == InitConfig /\ [][NextConfig]_vars

\* the processes configured without one, which watch a folder by label
InitFolder == Init /\ instances = <<>>

NextFolder ==
    \/ Startup
    \/ InitResolveFolder
    \/ InitResolveFolderRaises
    \/ LoopResolveFolder
    \/ LoopResolveFolderRaises
    \/ \E k \in 1..MaxLen : start_instance_call(k)
    \/ \E k \in 1..MaxLen : start_instance_return(k)
    \/ GatherDone
    \/ Sleep
    \/ sigterm_handler

SpecFolder == InitFolder /\ [][NextFolder]_vars

TypeOK ==
    /\ pc \in Live \cup {"exit0", "terminated", "TypeError",
                         "YandexCloudError", "RuntimeError"}
    /\ round \in 0..MaxRounds
    /\ slept \in 0..MaxRounds
    /\ Len(instances) <= MaxLen

\* ---------------------------------------------------------------- claims
Crashed == {"TypeError", "YandexCloudError", "RuntimeError"}

\* the TargetSet the last resolve returned
TargetSet == IF round = 0 THEN init_instance_list ELSE all_matching_instances

StoppedIds(all) == {all[j].id : j \in {i \in DOMAIN all : stopped(all[i])}}

\* a step of main() that is a resolve which returned
ResolveStep == pc \in {"init", "loop"} /\ pc' \notin {"terminated", "YandexCloudError"}

\* C1: once the initial target set is non-empty, the process leaves the loop
\* only by a termination signal; in particular a round that finds stopped
\* instances after an earlier round dispatched does not end the process.
C1_LoopLeftOnlyBySignal ==
    init_instance_list # <<>> => pc \in {"loop", "gather", "sleep", "terminated"}

\* C2: every member of every TargetSet, under either strategy, is
\* preemptible, and an instance that is not preemptible gets no start command.
C2_TargetSetPreemptible ==
    /\ \A k \in DOMAIN init_instance_list :
          init_instance_list[k].preemptible = TRUE
    /\ \A k \in DOMAIN all_matching_instances :
          all_matching_instances[k].preemptible = TRUE
    /\ \A id \in Ids : kind[id] # "preemptible" => start_calls[id] = 0

\* a label query round whose listing had an instance that is not preemptible
\* and whose TargetSet is not empty
C2_Witness ==
    /\ get_instances_func = "get_instances_from_yc_folder"
    /\ round > 0
    /\ all_matching_instances # <<>>
    /\ \E k \in DOMAIN instance_list : ~instance_list[k].preemptible

\* C3: a dispatch round is left only by a signal or by completing: when it
\* completes, every coroutine has resolved to Started or Failed on its own and
\* every stopped instance of the snapshot got its start command, whatever
\* the outcome of the others; the process then sleeps.
C3_FailureIsolation ==
    [][pc = "gather" =>
          \/ pc' \in {"gather", "terminated"}
          \/ /\ pc' = "sleep"
             /\ \A k \in DOMAIN tasks' : tasks'[k] \in {"Started", "Failed"}
             /\ \A id \in StoppedIds(all_matching_instances') :
                   start_calls'[id] = 1]_vars

\* a round of two stopped instances, the first start failed and the second
\* succeeded, after which the process slept and stands before the next round
C3_Witness ==
    /\ pc = "loop"
    /\ slept = round
    /\ Len(tasks) = 2
    /\ tasks[1] = "Failed"
    /\ tasks[2] = "Started"

\* C4: a start command goes only to an instance whose status in the snapshot
\* of the round is STOPPED.
C4_StartOnlyStopped ==
    \A id \in Ids :
        start_calls[id] > 0 => id \in StoppedIds(all_matching_instances)

\* a completed dispatch round whose snapshot also holds an instance in a
\* transitional state, which got no start command
C4_Witness ==
    /\ pc = "sleep"
    /\ \E j, k \in DOMAIN all_matching_instances :
          /\ all_matching_instances[j].status = "STARTING"
          /\ start_calls[all_matching_instances[j].id] = 0
          /\ start_calls[all_matching_instances[k].id] = 1

\* C5: under the explicit list the TargetSet of a resolve is exactly the
\* identifiers of the working list at the start of the call whose instance is
\* preemptible and whose fetch did not fail, wherever they stand in the list.
C5_ExplicitListResolve ==
    get_instances_func = "get_instances_from_config" =>
        /\ IdsOf(TargetSet) \subseteq
               {id \in Range(call_list) : kind[id] = "preemptible"}
        /\ \A id \in Range(call_list) :
               kind[id] = "preemptible" /\ id \notin fetch_failed
                   => id \in IdsOf(TargetSet)

\* C6: an identifier once dropped from the working list is not fetched by a
\* later resolve and is not in its TargetSet, and the working list never grows.
C6_DroppedNeverReturns ==
    [][/\ Len(instances') <= Len(instances)
       /\ ResolveStep =>
              \A id \in dropped :
                  /\ id \notin Range(fetched')
                  /\ id \notin IdsOf(TargetSet')]_vars

\* C7: a gateway failure during a resolve never leaves the resolve and never
\* ends the process.
C7_ResolveNeverFatal == pc # "YandexCloudError"

\* C8: an empty first TargetSet ends the process at once with a clean exit,
\* before any loop iteration, start command or sleep; the loop is entered only
\* with a first TargetSet that is not empty.
C8_EmptyInitialExit ==
    /\ pc \in {"loop", "gather", "sleep", "RuntimeError"} =>
          init_instance_list # <<>>
    /\ pc = "exit0" =>
          /\ init_instance_list = <<>>
          /\ round = 0
          /\ slept = 0
          /\ tasks = <<>>
          /\ start_calls = NoCalls

\* an explicit list of which no identifier survived the first resolve
C8_Witness ==
    /\ pc = "exit0"
    /\ call_list # <<>>
    /\ instances = <<>>

\* C9: an instance whose start failed in a round and that the next round's
\* snapshot shows STOPPED is dispatched again in that round.
C9_ImplicitRetry ==
    [][\A id \in Ids :
          (ResolveStep /\ pc = "loop" /\ id \in FailedIds
              /\ id \in StoppedIds(all_matching_instances'))
          => /\ pc' = "gather"
             /\ \E k \in DOMAIN tasks' :
                   stopped_instances'[k].id = id /\ tasks'[k] = "pending"]_vars

\* C10: at most one start command per identifier in a round.
C10_OneStartPerRound == \A id \in Ids : start_calls[id] <= 1

\* a completed round of an explicit list that names a stopped instance twice,
\* fetched it twice, and started it once
C10_Witness ==
    /\ pc = "sleep"
    /\ \E i, j \in DOMAIN fetched :
          /\ i # j
          /\ fetched[i] = fetched[j]
          /\ fetched[i] \notin fetch_failed
          /\ start_calls[fetched[i]] = 1

\* C11: the resolve of a round begins only after every start action of the
\* round before has resolved and the sleep between them is over: while the
\* process sleeps or stands before a resolve no start action is pending or in
\* flight, and before a resolve every round begun has had its sleep.
C11_RoundBarrier ==
    /\ pc \in {"sleep", "loop"} =>
          \A k \in DOMAIN tasks : tasks[k] \in Resolved
    /\ pc = "loop" => slept = round

\* a round launched two start actions, both resolved, the process slept and
\* stands before the resolve of the next round
C11_Witness ==
    /\ pc = "loop"
    /\ round = 1
    /\ slept = 1
    /\ Len(tasks) = 2
    /\ \A k \in DOMAIN tasks : tasks[k] \in {"Started", "Failed"}

\* the status -> count mapping a histogram string stands for
MappingOf(str) == Range(str) \ {<<"{", 0>>, <<"}", 0>>}

\* a step of the loop that is a resolve which returned, so that the
\* statistics step ran on the new snapshot
StatsStep == pc = "loop" /\ round' = round + 1 /\ pc' # "YandexCloudError"

\* C12: an iteration whose status -> count mapping equals, as a mapping, the
\* last logged one emits no status line, in whatever order the statuses were
\* met.
C12_LoggedOnlyOnChange ==
    [][(/\ StatsStep
        /\ last_status_stats # <<>>
        /\ MappingOf(new_status_stats(all_matching_instances'))
               = MappingOf(last_status_stats))
       => ~stats_logged']_vars

\* C13: from the empty retained string the first snapshot is logged, also
\* the one of an empty TargetSet; a snapshot equal to the retained one emits
\* no line, so the same snapshot twice in a row emits one; the retained
\* string changes only with a line, to the snapshot logged.
C13_LogIdempotence ==
    /\ []((round > 0 /\ pc # "YandexCloudError") =>
             last_status_stats = new_status_stats(all_matching_instances))
    /\ [][/\ (StatsStep /\ round = 0) => stats_logged'
          /\ (StatsStep /\ new_status_stats(all_matching_instances')
                               = last_status_stats)
                 => (~stats_logged' /\ UNCHANGED last_status_stats)
          /\ last_status_stats' # last_status_stats =>
                 (StatsStep /\ stats_logged')]_vars

\* two rounds in a row with an empty TargetSet: the second emitted nothing,
\* because the first had logged "{}" over the empty initial string
C13_Witness ==
    /\ round = 2
    /\ pc = "sleep"
    /\ all_matching_instances = <<>>
    /\ ~stats_logged
    /\ last_status_stats = StrOfDict(<<>>)

\* a label query of the process has returned a TargetSet, and no later
\* listing call has failed
FolderResolved ==
    /\ get_instances_func = "get_instances_from_yc_folder"
    /\ pc \notin {"start", "init", "TypeError", "YandexCloudError"}

\* the instances of the last listing
Listed == {instance_list[k] : k \in DOMAIN instance_list}

\* C14: with both label values configured, the TargetSet of every round is
\* the set of the preemptible instances of the listing whose label equals the
\* go value, whatever the no-go value is (the go value included).
C14_GoValueWins ==
    (FolderResolved /\ label_go_value # None /\ label_no_go_value # None) =>
        IdsOf(TargetSet) =
            {i.id : i \in {l \in Listed : /\ l.preemptible
                                          /\ l.label = label_go_value}}

\* the no-go value equals the go value and a round still has a target
C14_Witness ==
    /\ FolderResolved
    /\ label_go_value = "keep_vm_up"
    /\ label_no_go_value = "keep_vm_up"
    /\ round >= 1
    /\ all_matching_instances # <<>>

\* C15: with neither label value configured the process starts up, reaches
\* the loop, and the TargetSet of every round is the set of all preemptible
\* instances of the listing.
C15_NeitherValueKeepsAll ==
    (instances = <<>> /\ label_go_value = None /\ label_no_go_value = None) =>
        /\ pc # "TypeError"
        /\ FolderResolved =>
               IdsOf(TargetSet) = {i.id : i \in {l \in Listed : l.preemptible}}

\* C16: the strategy picked at startup serves every resolve: a process that
\* picked the explicit list never lists the folder, also when its working
\* list is empty, and one that picked the label query never fetches by
\* identifier; the pick is made when main() starts and never again.
C16_StrategyFixed ==
    /\ pc = "start" => get_instances_func = None
    /\ get_instances_func = None => pc \in {"start", "terminated"}
    /\ get_instances_func = "get_instances_from_config" =>
           /\ instance_list = <<>>
           /\ pc = "init" => instances # <<>>
    /\ get_instances_func = "get_instances_from_yc_folder" =>
           /\ instances = <<>>
           /\ call_list = <<>> /\ fetched = <<>> /\ dropped = {}

\* a resolve of the second round ran on a working list that was already
\* empty, in a cloud that has a preemptible instance to list
C16_Witness ==
    /\ get_instances_func = "get_instances_from_config"
    /\ round = 2
    /\ call_list = <<>>
    /\ all_matching_instances = <<>>
    /\ \E id \in Ids : kind[id] = "preemptible"

\* what the label query keeps (lines 232-238)
Matches(i) ==
    /\ i.preemptible
    /\ label_go_value # None => i.label = label_go_value
    /\ (label_go_value = None /\ label_no_go_value # None) =>
           i.label # label_no_go_value

\* C17: a label query leaves the configuration as it was, and the TargetSet
\* of a round is the matching part of that round's listing, whatever the
\* rounds before held: an instance that matches again is a member again.
C17_LabelQueryNonDestructive ==
    /\ [](FolderResolved => IdsOf(TargetSet) = {i.id : i \in {l \in Listed : Matches(l)}})
    /\ [][get_instances_func = "get_instances_from_yc_folder" =>
              UNCHANGED <<label_go_value, label_no_go_value, instances>>]_vars

\* a round's TargetSet holds an instance that the resolve before it, the
\* first one, did not hold
C17_Witness ==
    /\ FolderResolved
    /\ round = 1
    /\ \E id \in IdsOf(all_matching_instances) : id \notin IdsOf(init_instance_list)

\* C18: under the explicit list the process leaves by the empty first
\* TargetSet only when no configured identifier names a preemptible instance
\* whose fetch succeeds, wherever such an identifier stands in the list.
C18_ExitOnlyWhenNothingToWatch ==
    (get_instances_func = "get_instances_from_config" /\ pc = "exit0") =>
        ~ \E id \in Range(call_list) :
              kind[id] = "preemptible" /\ id \notin fetch_failed

\* C19: a round of the loop whose TargetSet is empty does not end the
\* process: it issues no start command, goes to the sleep, which can run,
\* and after the sleep stands before the next resolve.
C19_EmptyLaterRoundGoesOn ==
    (/\ round >= 1
     /\ all_matching_instances = <<>>
     /\ pc \notin {"terminated", "YandexCloudError"}) =>
        /\ pc \in {"sleep", "loop"}
        /\ tasks = <<>>
        /\ start_calls = NoCalls
        /\ pc = "sleep" => ENABLED Sleep
        /\ pc = "loop" => slept = round

\* the first TargetSet had a member, the first round's was empty; the process
\* slept and stands before the second resolve
C19_Witness ==
    /\ pc = "loop"
    /\ round = 1
    /\ slept = 1
    /\ init_instance_list # <<>>
    /\ all_matching_instances = <<>>

\* C20: every iteration begun ends with one sleep: outside the dispatch and
\* the sleep of an iteration, a process that no signal has ended has slept
\* once per iteration, and inside them once per iteration before this one;
\* no resolve or start runs while the process sleeps.
C20_OneSleepPerIteration ==
    /\ pc \notin {"gather", "sleep", "terminated"} => slept = round
    /\ pc \in {"gather", "sleep"} => slept = round - 1
    /\ pc = "sleep" => \A k \in DOMAIN tasks : tasks[k] \in Resolved

====
